---- MODULE Spec2Model ----
(***************************************************************************)
(* NetworkMonitor (src/network.c): a monitor object guarded by one mutex,  *)
(* a detached background thread (monitor_thread_func) that probes WAN and  *)
(* LAN and publishes the results, and an application thread that calls the *)
(* public API (getters, setters, to_string, destroy).                      *)
(*                                                                         *)
(* Every shared-memory access and every lock operation of the source is    *)
(* one step, named after the source line it models (L = the thread loop,   *)
(* W = check_wan, N = check_lan, D = network_monitor_destroy).             *)
(* C strings are sequences of characters; strncpy truncates.               *)
(***************************************************************************)
EXTENDS Integers, Sequences, FiniteSets, TLC

VARIABLES
    mon,            \* the NetworkMonitor struct (configuration + status + running)
    lock_owner,     \* mon->lock: "none", "loop" or "app"
    lock_destroyed, \* pthread_mutex_destroy(&mon->lock) has run
    freed,          \* free(mon) has run
    loop,           \* the background thread: position and locals
    app,            \* the application thread: position, current call, return value
    now,            \* the value time(NULL) returns
    top_cfg,        \* history: the configuration at the top of the cycle in progress
    cyc,            \* history: what the probes of the cycle in progress observed
    published       \* history: the results and timestamp of the last completed cycle

vars == <<mon, lock_owner, lock_destroyed, freed, loop, app, now, top_cfg, cyc, published>>

----------------------------------------------------------------------------
(* Bounds of the model *)

\* time(NULL) ranges over 1..MaxTime (it stays at MaxTime once reached)
MaxTime == 2
\* the application makes at most MaxCalls API calls before it may destroy the monitor
MaxCalls == 1
\* /proc/net/route has at most MaxRoutes lines
MaxRoutes == 2

----------------------------------------------------------------------------
(* Program constants *)

MAX_WAN_SERVERS == 4
IF_NAMESIZE == 16
HOST_SIZE == 256
DEFAULT_TIMEOUT_MS == 1000
DEFAULT_INTERVAL_SEC == 5
DEFAULT_PORT == 53
MAX_RETRY == 3
BACKOFF_BASE_US == 100000

\* errno values the probes can record
ECONNREFUSED == 111
ENODEV == 19
EMFILE == 24
ENOENT == 2

IFF_UP == "IFF_UP"
IFF_RUNNING == "IFF_RUNNING"
RTF_UP == "RTF_UP"
RTF_GATEWAY == "RTF_GATEWAY"

\* a NULL char pointer (distinct from every string, the empty one included)
NULL == <<"NULL">>
EMPTY == <<>>
LO == <<"l", "o">>
ETH0 == <<"e", "t", "h", "0">>
WLAN0 == <<"w", "l", "a", "n", "0">>
GOOGLE_DNS == <<"8", ".", "8", ".", "8", ".", "8">>
CLOUDFLARE_DNS == <<"1", ".", "1", ".", "1", ".", "1">>
QUAD9_DNS == <<"9", ".", "9", ".", "9", ".", "9">>
OPEN_DNS == <<"2", "0", "8", ".", "6", "7", ".", "2", "2", "2", ".", "2", "2", "2">>
LOCALHOST == <<"1", "2", "7", ".", "0", ".", "0", ".", "1">>
HOSTNAME == <<"h">>
PROXY == <<"p", "x">>

Min(a, b) == IF a < b THEN a ELSE b

\* strncpy(dst, src, n) followed by dst[n] = '\0': the first n characters of src
Strncpy(src, n) == SubSeq(src, 1, Min(Len(src), n))

\* inet_pton(AF_INET, host, ...) > 0: host is a dotted-quad IPv4 address
inet_pton(host) == host \in {GOOGLE_DNS, CLOUDFLARE_DNS, QUAD9_DNS, OPEN_DNS, LOCALHOST}

\* the defaults[] table of network_monitor_new
defaults ==
    <<[host |-> GOOGLE_DNS, port |-> DEFAULT_PORT],
      [host |-> CLOUDFLARE_DNS, port |-> DEFAULT_PORT],
      [host |-> QUAD9_DNS, port |-> DEFAULT_PORT],
      [host |-> OPEN_DNS, port |-> DEFAULT_PORT]>>

\* line 195 testing IFF_UP alone
LanUpAdminOnly(flags) == IFF_UP \in flags

\* bool up = (ifr.ifr_flags & IFF_UP) && (ifr.ifr_flags & IFF_RUNNING)
LanUp(flags) == IFF_UP \in flags /\ IFF_RUNNING \in flags

----------------------------------------------------------------------------
(* Inputs *)

\* int arguments: invalid (negative, zero) and valid
ArgInts == {-5, 0, 2}
HostArgs == {NULL, LOCALHOST, HOSTNAME}
IfaceArgs == {NULL, EMPTY, LO}
ProxyArgs == {NULL, PROXY}
ConnectErrnos == {ECONNREFUSED}
StaleErrnos == {0, EMFILE, ENODEV} \cup ConnectErrnos

\* a NetworkConfig, or NULL
NoConfig == [null |-> TRUE]
Config(timeout_ms, check_interval_sec, proxy_url, wan_test_host, wan_test_port, lan_interface) ==
    [null |-> FALSE, timeout_ms |-> timeout_ms, check_interval_sec |-> check_interval_sec,
     proxy_url |-> proxy_url, wan_test_host |-> wan_test_host,
     wan_test_port |-> wan_test_port, lan_interface |-> lan_interface]
\* the constructor's inputs: no configuration, a valid one (as in test_network.c),
\* and ones whose fields are invalid or absent
Configs ==
    {NoConfig,
     Config(2, 2, PROXY, LOCALHOST, 2, LO),
     Config(0, -5, NULL, LOCALHOST, 0, EMPTY),
     Config(-5, 0, NULL, NULL, 2, NULL)}

\* /proc/net/route: unreadable, or a list of entries
\* (fields: the number of fields sscanf converts from the line)
RouteEntry(iface, dest, gw, flags) ==
    [iface |-> iface, dest |-> dest, gw |-> gw, flags |-> flags, fields |-> 4]
RouteTable(readable, entries) == [readable |-> readable, entries |-> entries]
\* the tables of a host without a default route (Routes, below, has the others:
\* the name of the interface makes no difference to the loop)
InitRoutes ==
    {RouteTable(FALSE, <<>>),
     RouteTable(TRUE, <<>>),
     RouteTable(TRUE, <<RouteEntry(ETH0, 1, 0, {RTF_UP})>>)}

\* the outcome of ioctl(SIOCGIFFLAGS): an errno, or the flag set
IoctlResults ==
    {[ok |-> FALSE, errno |-> ENODEV, flags |-> {}]} \cup
    {[ok |-> TRUE, errno |-> 0, flags |-> f] : f \in SUBSET {IFF_UP, IFF_RUNNING}}

----------------------------------------------------------------------------
(* Construction *)

\* line 105 without the test of the gateway address
RECURSIVE FirstRouteAnyGateway(_, _)
FirstRouteAnyGateway(entries, k) ==
    IF k > Len(entries) THEN 0
    ELSE IF /\ entries[k].fields = 4
            /\ entries[k].dest = 0
            /\ RTF_GATEWAY \in entries[k].flags
            /\ RTF_UP \in entries[k].flags
         THEN k
         ELSE FirstRouteAnyGateway(entries, k + 1)

\* the index of the first qualifying default route, 0 when there is none
RECURSIVE FirstDefaultRoute(_, _)
FirstDefaultRoute(entries, k) ==
    IF k > Len(entries) THEN 0
    ELSE IF /\ entries[k].fields = 4
            /\ entries[k].dest = 0
            /\ RTF_GATEWAY \in entries[k].flags
            /\ RTF_UP \in entries[k].flags
            /\ entries[k].gw /= 0
         THEN k
         ELSE FirstDefaultRoute(entries, k + 1)

\* detect_lan_interface: [found, lan_interface, last_error] from the route table
detect_lan_interface(route, m) ==
    IF ~route.readable
    THEN [found |-> FALSE, mon |-> [m EXCEPT !.last_error = ENOENT]]
    ELSE LET k == FirstDefaultRoute(route.entries, 1) IN
         IF k > 0
         THEN [found |-> TRUE,
               mon |-> [m EXCEPT !.lan_interface =
                                     Strncpy(route.entries[k].iface, IF_NAMESIZE - 1),
                                 !.last_error = 0]]
         ELSE [found |-> FALSE, mon |-> [m EXCEPT !.last_error = 0]]

\* check_lan as the constructor calls it (single-threaded): the return value
check_lan(sockOk, io) == sockOk /\ io.ok /\ LanUp(io.flags)

\* the fields of a malloc'ed, not yet initialized NetworkMonitor that the
\* constructor assigns before it uses them
Blank ==
    [timeout_ms |-> 0, check_interval_sec |-> 0, proxy_url |-> EMPTY,
     wan_servers |-> defaults, num_wan_servers |-> 0, lan_interface |-> EMPTY,
     wan_up |-> FALSE, lan_up |-> FALSE, last_check_time |-> 0, last_error |-> 0,
     running |-> FALSE]

\* network_monitor_new up to the LAN validation: the configured monitor
Configure(cfg, route) ==
    LET m1 == [Blank EXCEPT
                 !.timeout_ms = IF ~cfg.null /\ cfg.timeout_ms > 0
                                THEN cfg.timeout_ms ELSE DEFAULT_TIMEOUT_MS,
                 !.check_interval_sec = IF ~cfg.null /\ cfg.check_interval_sec > 0
                                        THEN cfg.check_interval_sec ELSE DEFAULT_INTERVAL_SEC,
                 !.proxy_url = Strncpy(IF ~cfg.null /\ cfg.proxy_url /= NULL
                                       THEN cfg.proxy_url ELSE EMPTY, HOST_SIZE - 1),
                 !.num_wan_servers = MAX_WAN_SERVERS,
                 !.wan_servers = defaults]
        m2 == IF ~cfg.null /\ cfg.wan_test_host /= NULL /\ cfg.wan_test_port > 0
              THEN [m1 EXCEPT !.wan_servers[1] =
                       [host |-> Strncpy(cfg.wan_test_host, HOST_SIZE - 1),
                        port |-> cfg.wan_test_port]]
              ELSE m1
    IN  IF ~cfg.null /\ cfg.lan_interface /= NULL /\ cfg.lan_interface /= EMPTY
        THEN [m2 EXCEPT !.lan_interface = Strncpy(cfg.lan_interface, IF_NAMESIZE - 1)]
        ELSE LET d == detect_lan_interface(route, m2) IN
             IF d.found THEN d.mon
             ELSE [d.mon EXCEPT !.lan_interface = Strncpy(LO, IF_NAMESIZE - 1)]

\* network_monitor_new: the handle is live iff the allocation, the validation
\* and the mutex/thread creation succeed; the state fields are then initialized
network_monitor_new(mallocOk, cfg, route, sockOk, lanSockOk, io, mutexOk, threadOk) ==
    LET m == Configure(cfg, route) IN
    IF ~mallocOk THEN [live |-> FALSE, mon |-> Blank]
    ELSE IF ~sockOk \/ ~check_lan(lanSockOk, io) \/ ~mutexOk \/ ~threadOk
    THEN [live |-> FALSE, mon |-> m]
    ELSE [live |-> TRUE,
          mon |-> [m EXCEPT !.wan_up = FALSE, !.lan_up = FALSE, !.last_check_time = 0,
                            !.last_error = 0, !.running = TRUE]]

----------------------------------------------------------------------------
(* Initial state: the state network_monitor_new leaves *)

\* the configuration a cycle can use
CfgOf(m) ==
    [timeout_ms |-> m.timeout_ms, check_interval_sec |-> m.check_interval_sec,
     wan_servers |-> m.wan_servers, lan_interface |-> m.lan_interface]

\* nothing observed yet in this cycle:
\*   accepted     a connect() of this cycle returned 0
\*   skipped      a connect() attempt was not made or did not end refused
\*   tried        the highest server index connect() was called on (-1: none)
\*   in_order     no connect() was called on an index below `tried`
\*   lan_flags_up the ioctl of this cycle returned IFF_UP and IFF_RUNNING both set
\*   probe_errno  the errno of the most recent failed socket(), connect() or
\*                ioctl() of the probe that runs or has just returned (0: none)
NewCycle ==
    [accepted |-> FALSE, skipped |-> FALSE, tried |-> -1, in_order |-> TRUE,
     lan_flags_up |-> FALSE, probe_errno |-> 0]

LoopStart(live) ==
    [pc |-> IF live THEN "L210" ELSE "unspawned",
     i |-> 0, retry |-> 0, interval |-> 0, new_wan |-> FALSE, new_lan |-> FALSE,
     tv |-> 0, addr |-> [host |-> EMPTY, port |-> 0], ifr_name |-> EMPTY,
     up |-> FALSE, errno |-> 0, socks |-> 0, delays |-> <<>>]

AppStart(live) ==
    [pc |-> IF live THEN "idle" ELSE "nohandle", op |-> "none", arg |-> <<>>,
     ret |-> <<>>, calls |-> 0]

Init ==
    \E cfg \in Configs, route \in InitRoutes, io \in IoctlResults,
       mallocOk \in BOOLEAN, sockOk \in BOOLEAN, lanSockOk \in BOOLEAN,
       mutexOk \in BOOLEAN, threadOk \in BOOLEAN :
        LET r == network_monitor_new(mallocOk, cfg, route, sockOk, lanSockOk, io,
                                     mutexOk, threadOk) IN
        /\ mon = r.mon
        /\ lock_owner = "none"
        /\ lock_destroyed = FALSE
        /\ freed = ~r.live
        /\ loop = LoopStart(r.live)
        /\ app = AppStart(r.live)
        /\ now = 1
        /\ top_cfg = CfgOf(r.mon)
        /\ cyc = NewCycle
        /\ published = <<FALSE, FALSE, 0>>

----------------------------------------------------------------------------
(* The mutex *)

\* pthread_mutex_lock(&mon->lock) by thread t: blocks while another thread owns it
Acquire(t) ==
    /\ lock_owner = "none"
    /\ lock_owner' = t

\* pthread_mutex_unlock(&mon->lock)
Release(t) ==
    lock_owner' = "none"

----------------------------------------------------------------------------
(* monitor_thread_func *)

LoopAt(pc) == loop.pc = pc
Goto(pc) == [loop EXCEPT !.pc = pc]

\* line 210: pthread_mutex_lock(&mon->lock)
Loop_L210 ==
    /\ LoopAt("L210")
    /\ Acquire("loop")
    /\ loop' = Goto("L211")
    /\ UNCHANGED <<mon, lock_destroyed, freed, app, now, top_cfg, cyc, published>>

\* line 211: if (!mon->running). After free(mon) the read is a use after free:
\* it may return the stale value or anything else.
Loop_L211 ==
    /\ LoopAt("L211")
    /\ \E r \in (IF freed THEN BOOLEAN ELSE {mon.running}) :
           loop' = Goto(IF r THEN "L215" ELSE "L212")
    /\ UNCHANGED <<mon, lock_owner, lock_destroyed, freed, app, now, top_cfg, cyc, published>>

\* lines 212-213: pthread_mutex_unlock(&mon->lock); break; return NULL
Loop_L212 ==
    /\ LoopAt("L212")
    /\ Release("loop")
    /\ loop' = Goto("exit")
    /\ UNCHANGED <<mon, lock_destroyed, freed, app, now, top_cfg, cyc, published>>

\* line 215: int interval = mon->check_interval_sec (the top of the cycle)
Loop_L215 ==
    /\ LoopAt("L215")
    /\ loop' = [loop EXCEPT !.pc = "L216", !.interval = mon.check_interval_sec]
    /\ UNCHANGED <<mon, lock_owner, lock_destroyed, freed, app, now, top_cfg, cyc, published>>

\* line 215 again, recording in top_cfg the configuration at the top of the cycle
Loop_L215_top ==
    /\ LoopAt("L215")
    /\ loop' = [loop EXCEPT !.pc = "L216", !.interval = mon.check_interval_sec]
    /\ top_cfg' = CfgOf(mon)
    /\ UNCHANGED <<mon, lock_owner, lock_destroyed, freed, app, now, cyc, published>>

\* Loop_L216 without the unlock: the lock stays held across the probes
Loop_L216_keeps_lock ==
    /\ LoopAt("L216")
    /\ loop' = [loop EXCEPT !.pc = "W133", !.i = 0]
    /\ cyc' = NewCycle
    /\ UNCHANGED <<mon, lock_owner, lock_destroyed, freed, app, now, top_cfg, published>>

\* line 216: pthread_mutex_unlock(&mon->lock), then line 219 calls check_wan
Loop_L216 ==
    /\ LoopAt("L216")
    /\ Release("loop")
    /\ loop' = [loop EXCEPT !.pc = "W133", !.i = 0]
    /\ cyc' = NewCycle
    /\ UNCHANGED <<mon, lock_destroyed, freed, app, now, top_cfg, published>>

----------------------------------------------------------------------------
(* check_wan, called at line 219 *)

\* uint16_t htons(int): the port keeps its low 16 bits
htons(port) == port % 65536

\* the locals of check_wan go out of scope when it returns
ReturnWan(result) ==
    [loop EXCEPT !.pc = "N178", !.new_wan = result, !.i = 0, !.retry = 0, !.tv = 0,
                 !.addr = [host |-> EMPTY, port |-> 0], !.delays = <<>>]

\* `continue` / the end of the for body: i++
NextServer(socks) ==
    [loop EXCEPT !.pc = "W133", !.i = loop.i + 1, !.retry = 0, !.socks = socks,
                 !.tv = 0, !.addr = [host |-> EMPTY, port |-> 0], !.delays = <<>>]

\* Loop_W133 returning true when the list is exhausted
Loop_W133_returns_true ==
    /\ LoopAt("W133")
    /\ IF loop.i < mon.num_wan_servers
       THEN loop' = Goto("W136") /\ cyc' = cyc
       ELSE loop' = ReturnWan(TRUE) /\ cyc' = [cyc EXCEPT !.tried = -1]
    /\ UNCHANGED <<mon, lock_owner, lock_destroyed, freed, app, now, top_cfg, published>>

\* line 133: for (...; i < mon->num_wan_servers; ...); line 166: return false
Loop_W133 ==
    /\ LoopAt("W133")
    /\ IF loop.i < mon.num_wan_servers
       THEN loop' = Goto("W136") /\ cyc' = cyc
       ELSE loop' = ReturnWan(FALSE) /\ cyc' = [cyc EXCEPT !.tried = -1]
    /\ UNCHANGED <<mon, lock_owner, lock_destroyed, freed, app, now, top_cfg, published>>

\* line 136: int sock = socket(AF_INET, SOCK_STREAM, 0)
Loop_W136 ==
    /\ LoopAt("W136")
    /\ \/ /\ loop' = [loop EXCEPT !.pc = "W142", !.socks = loop.socks + 1]
          /\ cyc' = cyc
       \/ /\ loop' = [loop EXCEPT !.pc = "W138", !.errno = EMFILE]
          /\ cyc' = [cyc EXCEPT !.skipped = TRUE, !.probe_errno = EMFILE]
    /\ UNCHANGED <<mon, lock_owner, lock_destroyed, freed, app, now, top_cfg, published>>

\* Loop_W138 ending the thread when socket() fails
Loop_W138_stops ==
    /\ LoopAt("W138")
    /\ mon' = [mon EXCEPT !.last_error = loop.errno]
    /\ loop' = [Goto("exit") EXCEPT !.errno = 0]
    /\ UNCHANGED <<lock_owner, lock_destroyed, freed, app, now, top_cfg, cyc, published>>

\* lines 138-139: mon->last_error = errno; continue
Loop_W138 ==
    /\ LoopAt("W138")
    /\ mon' = [mon EXCEPT !.last_error = loop.errno]
    /\ loop' = [NextServer(loop.socks) EXCEPT !.errno = 0]
    /\ UNCHANGED <<lock_owner, lock_destroyed, freed, app, now, top_cfg, cyc, published>>

\* lines 142-144: struct timeval tv from mon->timeout_ms; setsockopt
Loop_W142 ==
    /\ LoopAt("W142")
    /\ loop' = [loop EXCEPT !.pc = "W148", !.tv = mon.timeout_ms]
    /\ UNCHANGED <<mon, lock_owner, lock_destroyed, freed, app, now, top_cfg, cyc, published>>

\* line 148: addr.sin_port = htons(srv->port)
Loop_W148 ==
    /\ LoopAt("W148")
    /\ loop' = [loop EXCEPT !.pc = "W149",
                            !.addr.port = htons(mon.wan_servers[loop.i + 1].port)]
    /\ UNCHANGED <<mon, lock_owner, lock_destroyed, freed, app, now, top_cfg, cyc, published>>

\* line 149: inet_pton(AF_INET, srv->host, &addr.sin_addr) <= 0
Loop_W149 ==
    /\ LoopAt("W149")
    /\ LET host == mon.wan_servers[loop.i + 1].host IN
       IF inet_pton(host)
       THEN /\ loop' = [loop EXCEPT !.pc = "W156", !.addr.host = host, !.retry = 0]
            /\ cyc' = cyc
       ELSE /\ loop' = Goto("W150")
            /\ cyc' = [cyc EXCEPT !.skipped = TRUE]
    /\ UNCHANGED <<mon, lock_owner, lock_destroyed, freed, app, now, top_cfg, published>>

\* lines 150-152: mon->last_error = errno; close(sock); continue.
\* inet_pton returned 0 and left errno alone: errno holds what the thread's last
\* failed call left, or 0.
Loop_W150 ==
    /\ LoopAt("W150")
    /\ \E e \in StaleErrnos : mon' = [mon EXCEPT !.last_error = e]
    /\ loop' = NextServer(loop.socks - 1)
    /\ UNCHANGED <<lock_owner, lock_destroyed, freed, app, now, top_cfg, cyc, published>>

\* history: connect() is called on server index i
Tried(c, i) ==
    [c EXCEPT !.tried = IF i > c.tried THEN i ELSE c.tried,
              !.in_order = c.in_order /\ i >= c.tried]

\* lines 155-157: retry < 3 and connect(sock, &addr): 0 (then close(sock)), or -1 and errno
Loop_W156 ==
    /\ LoopAt("W156")
    /\ loop.retry < MAX_RETRY
    /\ \/ /\ loop' = [loop EXCEPT !.pc = "W158", !.socks = loop.socks - 1]
          /\ cyc' = Tried([cyc EXCEPT !.accepted = TRUE, !.skipped = TRUE], loop.i)
       \/ \E e \in ConnectErrnos :
          /\ loop' = [loop EXCEPT !.pc = "W161", !.errno = e]
          /\ cyc' = Tried([cyc EXCEPT !.skipped = cyc.skipped \/ e /= ECONNREFUSED,
                                      !.probe_errno = e], loop.i)
    /\ UNCHANGED <<mon, lock_owner, lock_destroyed, freed, app, now, top_cfg, published>>

\* Loop_W158 without the store of 0
Loop_W158_keeps_error ==
    /\ LoopAt("W158")
    /\ loop' = ReturnWan(TRUE)
    /\ cyc' = [cyc EXCEPT !.tried = -1]
    /\ UNCHANGED <<mon, lock_owner, lock_destroyed, freed, app, now, top_cfg, published>>

\* lines 158-159: mon->last_error = 0; return true
Loop_W158 ==
    /\ LoopAt("W158")
    /\ mon' = [mon EXCEPT !.last_error = 0]
    /\ loop' = ReturnWan(TRUE)
    /\ cyc' = [cyc EXCEPT !.tried = -1]
    /\ UNCHANGED <<lock_owner, lock_destroyed, freed, app, now, top_cfg, published>>

\* Loop_W161 sleeping 100 ms after every failed attempt
Loop_W161_fixed_delay ==
    /\ LoopAt("W161")
    /\ mon' = [mon EXCEPT !.last_error = loop.errno]
    /\ loop' = [loop EXCEPT !.pc = "W156", !.errno = 0, !.retry = loop.retry + 1,
                            !.delays = Append(loop.delays, BACKOFF_BASE_US)]
    /\ UNCHANGED <<lock_owner, lock_destroyed, freed, app, now, top_cfg, cyc, published>>

\* lines 161-162: mon->last_error = errno; usleep(100000 << retry); retry++
Loop_W161 ==
    /\ LoopAt("W161")
    /\ mon' = [mon EXCEPT !.last_error = loop.errno]
    /\ loop' = [loop EXCEPT !.pc = "W156", !.errno = 0, !.retry = loop.retry + 1,
                            !.delays = Append(loop.delays, BACKOFF_BASE_US * (2 ^ loop.retry))]
    /\ UNCHANGED <<lock_owner, lock_destroyed, freed, app, now, top_cfg, cyc, published>>

\* Loop_W164 without the close(sock) of line 164
Loop_W164_leaks ==
    /\ LoopAt("W156")
    /\ loop.retry >= MAX_RETRY
    /\ loop' = NextServer(loop.socks)
    /\ UNCHANGED <<mon, lock_owner, lock_destroyed, freed, app, now, top_cfg, cyc, published>>

\* line 155 with retry == 3, line 164: close(sock); the next server
Loop_W164 ==
    /\ LoopAt("W156")
    /\ loop.retry >= MAX_RETRY
    /\ loop' = NextServer(loop.socks - 1)
    /\ UNCHANGED <<mon, lock_owner, lock_destroyed, freed, app, now, top_cfg, cyc, published>>

----------------------------------------------------------------------------
(* check_lan, called at line 220 *)

\* the locals of check_lan go out of scope when it returns; line 223 follows
ReturnLan(result, socks) ==
    [loop EXCEPT !.pc = "L223", !.new_lan = result, !.socks = socks, !.up = FALSE,
                 !.ifr_name = EMPTY]

\* line 178: int sock = socket(AF_INET, SOCK_DGRAM, 0)
Loop_N178 ==
    /\ LoopAt("N178")
    /\ \/ /\ loop' = [loop EXCEPT !.pc = "N185", !.socks = loop.socks + 1]
          /\ cyc' = [cyc EXCEPT !.probe_errno = 0]
       \/ /\ loop' = [loop EXCEPT !.pc = "N180", !.errno = EMFILE]
          /\ cyc' = [cyc EXCEPT !.probe_errno = EMFILE]
    /\ UNCHANGED <<mon, lock_owner, lock_destroyed, freed, app, now, top_cfg, published>>

\* lines 180-181: mon->last_error = errno; return false
Loop_N180 ==
    /\ LoopAt("N180")
    /\ mon' = [mon EXCEPT !.last_error = loop.errno]
    /\ loop' = [ReturnLan(FALSE, loop.socks) EXCEPT !.errno = 0]
    /\ UNCHANGED <<lock_owner, lock_destroyed, freed, app, now, top_cfg, cyc, published>>

\* lines 185-186: strncpy(ifr.ifr_name, mon->lan_interface, IF_NAMESIZE - 1)
Loop_N185 ==
    /\ LoopAt("N185")
    /\ loop' = [loop EXCEPT !.pc = "N187",
                            !.ifr_name = Strncpy(mon.lan_interface, IF_NAMESIZE - 1)]
    /\ UNCHANGED <<mon, lock_owner, lock_destroyed, freed, app, now, top_cfg, cyc, published>>

\* lines 187, 192, 195: ioctl(sock, SIOCGIFFLAGS, &ifr); close(sock); bool up = ...
Loop_N187 ==
    /\ LoopAt("N187")
    /\ \E io \in IoctlResults :
          IF io.ok
          THEN /\ loop' = [loop EXCEPT !.pc = "N196", !.socks = loop.socks - 1,
                                       !.up = LanUp(io.flags)]
               /\ cyc' = [cyc EXCEPT !.lan_flags_up = {IFF_UP, IFF_RUNNING} \subseteq io.flags]
          ELSE /\ loop' = [loop EXCEPT !.pc = "N188", !.errno = io.errno]
               /\ cyc' = [cyc EXCEPT !.probe_errno = io.errno]
    /\ UNCHANGED <<mon, lock_owner, lock_destroyed, freed, app, now, top_cfg, published>>

\* Loop_N188 without the store of errno
Loop_N188_keeps_error ==
    /\ LoopAt("N188")
    /\ loop' = [ReturnLan(FALSE, loop.socks - 1) EXCEPT !.errno = 0]
    /\ UNCHANGED <<mon, lock_owner, lock_destroyed, freed, app, now, top_cfg, cyc, published>>

\* lines 188-190: mon->last_error = errno; close(sock); return false
Loop_N188 ==
    /\ LoopAt("N188")
    /\ mon' = [mon EXCEPT !.last_error = loop.errno]
    /\ loop' = [ReturnLan(FALSE, loop.socks - 1) EXCEPT !.errno = 0]
    /\ UNCHANGED <<lock_owner, lock_destroyed, freed, app, now, top_cfg, cyc, published>>

\* line 196 leaving last_error alone whatever the result
KeepErrorOnLanUp(up, last_error) == last_error

\* line 196 storing 0 whatever the result
ClearErrorAlways(up, last_error) == 0

\* line 196: mon->last_error = up ? 0 : mon->last_error
ClearErrorOnLanUp(up, last_error) == IF up THEN 0 ELSE last_error

\* lines 196-197: the assignment, and return up
Loop_N196 ==
    /\ LoopAt("N196")
    /\ mon' = [mon EXCEPT !.last_error = ClearErrorOnLanUp(loop.up, mon.last_error)]
    /\ loop' = ReturnLan(loop.up, loop.socks)
    /\ UNCHANGED <<lock_owner, lock_destroyed, freed, app, now, top_cfg, cyc, published>>

----------------------------------------------------------------------------
(* monitor_thread_func: publishing the cycle *)

\* line 223: pthread_mutex_lock(&mon->lock)
Loop_L223 ==
    /\ LoopAt("L223")
    /\ Acquire("loop")
    /\ loop' = Goto("L224")
    /\ cyc' = [cyc EXCEPT !.probe_errno = 0]
    /\ UNCHANGED <<mon, lock_destroyed, freed, app, now, top_cfg, published>>

\* Loop_L224 releasing the lock after the first of the three writes
Loop_L224_unlocks ==
    /\ LoopAt("L224")
    /\ mon' = [mon EXCEPT !.wan_up = loop.new_wan]
    /\ loop' = Goto("L225")
    /\ lock_owner' = "none"
    /\ UNCHANGED <<lock_destroyed, freed, app, now, top_cfg, cyc, published>>

\* line 224: mon->wan_up = new_wan
Loop_L224 ==
    /\ LoopAt("L224")
    /\ mon' = [mon EXCEPT !.wan_up = loop.new_wan]
    /\ loop' = Goto("L225")
    /\ UNCHANGED <<lock_owner, lock_destroyed, freed, app, now, top_cfg, cyc, published>>

\* line 225: mon->lan_up = new_lan
Loop_L225 ==
    /\ LoopAt("L225")
    /\ mon' = [mon EXCEPT !.lan_up = loop.new_lan]
    /\ loop' = Goto("L226")
    /\ UNCHANGED <<lock_owner, lock_destroyed, freed, app, now, top_cfg, cyc, published>>

\* Loop_L226 completing the cycle without the store of the time
Loop_L226_keeps_time ==
    /\ LoopAt("L226")
    /\ published' = <<loop.new_wan, loop.new_lan, now>>
    /\ loop' = Goto("L227")
    /\ UNCHANGED <<mon, lock_owner, lock_destroyed, freed, app, now, top_cfg, cyc>>

\* line 226: mon->last_check_time = time(NULL); the cycle is complete
Loop_L226 ==
    /\ LoopAt("L226")
    /\ mon' = [mon EXCEPT !.last_check_time = now]
    /\ published' = <<loop.new_wan, loop.new_lan, now>>
    /\ loop' = Goto("L227")
    /\ UNCHANGED <<lock_owner, lock_destroyed, freed, app, now, top_cfg, cyc>>

\* line 227: pthread_mutex_unlock(&mon->lock)
Loop_L227 ==
    /\ LoopAt("L227")
    /\ Release("loop")
    /\ loop' = Goto("L229")
    /\ UNCHANGED <<mon, lock_destroyed, freed, app, now, top_cfg, cyc, published>>

\* line 229: sleep(interval): at least one second passes
Loop_L229 ==
    /\ LoopAt("L229")
    /\ now' = Min(now + 1, MaxTime)
    /\ loop' = Goto("L210")
    /\ UNCHANGED <<mon, lock_owner, lock_destroyed, freed, app, top_cfg, cyc, published>>

\* the positions at which the next step of the loop dereferences mon
LoopTouchPcs ==
    {"L210", "L211", "L212", "L215", "L216", "W133", "W138", "W142", "W148", "W149",
     "W150", "W158", "W161", "N180", "N185", "N188", "N196", "L223", "L224", "L225",
     "L226", "L227"}

\* a use of freed memory may also fault: the thread (and the process) dies,
\* and nothing holds the lock any more
Loop_Fault ==
    /\ freed
    /\ loop.pc \in LoopTouchPcs
    /\ loop' = Goto("crashed")
    /\ lock_owner' = "none"
    /\ UNCHANGED <<mon, lock_destroyed, freed, app, now, top_cfg, cyc, published>>

\* the steps of the background thread other than line 215
LoopRest ==
    \/ Loop_L210 \/ Loop_L211 \/ Loop_L212 \/ Loop_L216
    \/ Loop_W133 \/ Loop_W136 \/ Loop_W138 \/ Loop_W142 \/ Loop_W148 \/ Loop_W149
    \/ Loop_W150 \/ Loop_W156 \/ Loop_W158 \/ Loop_W161 \/ Loop_W164
    \/ Loop_N178 \/ Loop_N180 \/ Loop_N185 \/ Loop_N187 \/ Loop_N188 \/ Loop_N196
    \/ Loop_L223 \/ Loop_L224 \/ Loop_L225 \/ Loop_L226 \/ Loop_L227 \/ Loop_L229
    \/ Loop_Fault

----------------------------------------------------------------------------
(* The application thread: the public API *)

\* op(self, arg): pthread_mutex_lock(&mon->lock), which blocks while the loop
\* owns the lock, and the statement(s) between the lock and the unlock
Call(op, arg, newMon, ret) ==
    /\ app.pc = "idle"
    /\ app.calls < MaxCalls
    /\ Acquire("app")
    /\ mon' = newMon
    /\ app' = [pc |-> "unlock", op |-> op, arg |-> arg, ret |-> ret, calls |-> app.calls + 1]
    /\ UNCHANGED <<lock_destroyed, freed, loop, now, top_cfg, cyc, published>>

\* lines 343-344: bool status = mon->wan_up
get_wan_status == Call("get_wan_status", <<>>, mon, <<mon.wan_up>>)
\* lines 357-358: bool status = mon->lan_up
get_lan_status == Call("get_lan_status", <<>>, mon, <<mon.lan_up>>)
\* lines 371-372: time_t timestamp = mon->last_check_time
get_last_check_time == Call("get_last_check_time", <<>>, mon, <<mon.last_check_time>>)
\* lines 385-386: int err = mon->last_error
get_last_error == Call("get_last_error", <<>>, mon, <<mon.last_error>>)

\* line 400 with ms >= 0 for ms > 0
ClampTimeoutFromZero(ms) == IF ms >= 0 THEN ms ELSE DEFAULT_TIMEOUT_MS

\* line 400: (ms > 0) ? ms : 1000
ClampTimeout(ms) == IF ms > 0 THEN ms ELSE DEFAULT_TIMEOUT_MS
\* line 413: (sec > 0) ? sec : 5
ClampInterval(sec) == IF sec > 0 THEN sec ELSE DEFAULT_INTERVAL_SEC
\* line 454: (port > 0) ? port : 53
ClampPort(port) == IF port > 0 THEN port ELSE DEFAULT_PORT

\* lines 399-400: mon->timeout_ms = ...
set_timeout_ms ==
    \E ms \in ArgInts :
        Call("set_timeout_ms", <<ms>>, [mon EXCEPT !.timeout_ms = ClampTimeout(ms)], <<>>)
\* lines 412-413: mon->check_interval_sec = ...
set_check_interval_sec ==
    \E sec \in ArgInts :
        Call("set_check_interval_sec", <<sec>>,
             [mon EXCEPT !.check_interval_sec = ClampInterval(sec)], <<>>)
\* lines 425-427: strncpy(mon->proxy_url, proxy_url ? proxy_url : "", ...)
set_proxy ==
    \E url \in ProxyArgs :
        Call("set_proxy", <<url>>,
             [mon EXCEPT !.proxy_url =
                  Strncpy(IF url /= NULL THEN url ELSE EMPTY, HOST_SIZE - 1)], <<>>)
\* set_wan_test_host storing the host in every entry of the list
set_wan_test_host_every_server ==
    \E host \in HostArgs :
        Call("set_wan_test_host", <<host>>,
             [mon EXCEPT !.wan_servers =
                  [i \in 1..MAX_WAN_SERVERS |->
                      [mon.wan_servers[i] EXCEPT !.host =
                          Strncpy(IF host /= NULL THEN host ELSE GOOGLE_DNS, HOST_SIZE - 1)]]],
             <<>>)

\* lines 439-441: strncpy(mon->wan_servers[0].host, host ? host : "8.8.8.8", ...)
set_wan_test_host ==
    \E host \in HostArgs :
        Call("set_wan_test_host", <<host>>,
             [mon EXCEPT !.wan_servers[1].host =
                  Strncpy(IF host /= NULL THEN host ELSE GOOGLE_DNS, HOST_SIZE - 1)], <<>>)
\* lines 453-454: mon->wan_servers[0].port = ...
set_wan_test_port ==
    \E port \in ArgInts :
        Call("set_wan_test_port", <<port>>,
             [mon EXCEPT !.wan_servers[1].port = ClampPort(port)], <<>>)
\* set_lan_interface resetting last_error as well
set_lan_interface_clears_error ==
    \E iface \in IfaceArgs :
        Call("set_lan_interface", <<iface>>,
             [mon EXCEPT !.lan_interface =
                  Strncpy(IF iface /= NULL THEN iface ELSE ETH0, IF_NAMESIZE - 1),
                         !.last_error = 0], <<>>)

\* lines 466-468: strncpy(mon->lan_interface, iface ? iface : "eth0", ...)
set_lan_interface ==
    \E iface \in IfaceArgs :
        Call("set_lan_interface", <<iface>>,
             [mon EXCEPT !.lan_interface =
                  Strncpy(IF iface /= NULL THEN iface ELSE ETH0, IF_NAMESIZE - 1)], <<>>)

\* what snprintf prints at lines 485-487 (the text format is not modelled)
Snapshot(m) ==
    <<m.wan_up, m.lan_up, m.last_check_time, m.timeout_ms, m.proxy_url,
      m.wan_servers[1].host, m.wan_servers[1].port, m.lan_interface>>

\* lines 482-488: char* buf = malloc(768); if (buf) snprintf(...)
network_monitor_to_string ==
    \/ Call("network_monitor_to_string", <<>>, mon, <<Snapshot(mon)>>)
    \/ Call("network_monitor_to_string", <<>>, mon, <<NULL>>)

\* pthread_mutex_unlock(&mon->lock) and the return: lines 345-346, 359-360, ...
App_Unlock ==
    /\ app.pc = "unlock"
    /\ Release("app")
    /\ app' = [app EXCEPT !.pc = "idle", !.op = "none", !.arg = <<>>, !.ret = <<>>]
    /\ UNCHANGED <<mon, lock_destroyed, freed, loop, now, top_cfg, cyc, published>>

\* network_monitor_destroy(self), self != NULL, the last call on the handle.
\* lines 327-328: pthread_mutex_lock(&mon->lock); mon->running = false
Destroy_L327 ==
    /\ app.pc = "idle"
    /\ Acquire("app")
    /\ mon' = [mon EXCEPT !.running = FALSE]
    /\ app' = [app EXCEPT !.pc = "D329", !.op = "network_monitor_destroy"]
    /\ UNCHANGED <<lock_destroyed, freed, loop, now, top_cfg, cyc, published>>

\* line 329: pthread_mutex_unlock(&mon->lock)
Destroy_L329 ==
    /\ app.pc = "D329"
    /\ Release("app")
    /\ app' = [app EXCEPT !.pc = "D330"]
    /\ UNCHANGED <<mon, lock_destroyed, freed, loop, now, top_cfg, cyc, published>>

\* lines 330-331: usleep(100000), the grace period; pthread_mutex_destroy(&mon->lock)
Destroy_L330 ==
    /\ app.pc = "D330"
    /\ lock_destroyed' = TRUE
    /\ app' = [app EXCEPT !.pc = "D332"]
    /\ UNCHANGED <<mon, lock_owner, freed, loop, now, top_cfg, cyc, published>>

\* line 332: free(mon)
Destroy_L332 ==
    /\ app.pc = "D332"
    /\ freed' = TRUE
    /\ app' = [app EXCEPT !.pc = "destroyed"]
    /\ UNCHANGED <<mon, lock_owner, lock_destroyed, loop, now, top_cfg, cyc, published>>

AppNext ==
    \/ get_wan_status \/ get_lan_status \/ get_last_check_time \/ get_last_error
    \/ set_timeout_ms \/ set_check_interval_sec \/ set_proxy \/ set_wan_test_host
    \/ set_wan_test_port \/ set_lan_interface \/ network_monitor_to_string
    \/ App_Unlock
    \/ Destroy_L327 \/ Destroy_L329 \/ Destroy_L330 \/ Destroy_L332

Next == Loop_L215 \/ LoopRest \/ AppNext

Spec == Init /\ [][Next]_vars

\* the same program with its scheduling: the background thread is scheduled
\* again and again and each of its system calls returns (a step of the loop
\* that stays possible is taken), and a call of the API that holds the lock
\* goes on to its unlock
LoopNext == Loop_L215 \/ LoopRest

Fairness == WF_vars(LoopNext) /\ WF_vars(App_Unlock) /\ WF_vars(Destroy_L329)

SpecFair == Init /\ [][Next]_vars /\ Fairness

\* the same program, with the history variable top_cfg kept up to date
NextTop == Loop_L215_top \/ LoopRest \/ AppNext

SpecTop == Init /\ [][NextTop]_vars

----------------------------------------------------------------------------
(* network_monitor_new, statement by statement: the calling thread is inside *)
(* the constructor, app.arg holds its argument and what the system calls it  *)
(* makes will return; they go out of scope when it returns                   *)

\* the first line of /proc/net/route, the column names: sscanf converts 2 fields
\* ("De" of "Destination" is a hex number) and leaves the others as they were
HeaderLine ==
    [iface |-> <<"I", "f", "a", "c", "e">>, dest |-> 0, gw |-> 1,
     flags |-> {RTF_UP, RTF_GATEWAY}, fields |-> 2]

\* lines of /proc/net/route: the header, two default routes with a gateway,
\* and routes that lack one of the four conditions of line 105
RouteLines ==
    {HeaderLine,
     RouteEntry(ETH0, 0, 1, {RTF_UP, RTF_GATEWAY}),
     RouteEntry(WLAN0, 0, 1, {RTF_UP, RTF_GATEWAY}),
     RouteEntry(ETH0, 1, 1, {RTF_UP, RTF_GATEWAY}),
     RouteEntry(ETH0, 0, 0, {RTF_UP, RTF_GATEWAY}),
     RouteEntry(ETH0, 0, 1, {RTF_UP}),
     RouteEntry(WLAN0, 0, 1, {RTF_GATEWAY})}

\* /proc/net/route: unreadable, or up to MaxRoutes lines
Routes ==
    {RouteTable(FALSE, <<>>)} \cup
    {RouteTable(TRUE, t) : t \in UNION {[1..k -> RouteLines] : k \in 0..MaxRoutes}}

\* the argument of network_monitor_new and the outcomes of its system calls
NewInputs ==
    [cfg : Configs, route : Routes, io : IoctlResults, mallocOk : BOOLEAN,
     sockOk : BOOLEAN, lanSockOk : BOOLEAN, mutexOk : BOOLEAN, threadOk : BOOLEAN]

\* the call network_monitor_new(initial_cfg)
InitNew ==
    \E in \in NewInputs :
        /\ mon = Blank
        /\ lock_owner = "none"
        /\ lock_destroyed = FALSE
        /\ freed = FALSE
        /\ loop = LoopStart(FALSE)
        /\ app = [pc |-> "N247", op |-> "network_monitor_new", arg |-> <<in>>,
                  ret |-> <<>>, calls |-> 0]
        /\ now = 1
        /\ top_cfg = CfgOf(Blank)
        /\ cyc = NewCycle
        /\ published = <<FALSE, FALSE, 0>>

NewAt(pc) == app.pc = pc /\ app.op = "network_monitor_new"

\* lines 247-248: mon = malloc(...); if (!mon) return NULL
New_L247 ==
    /\ NewAt("N247")
    /\ app' = [app EXCEPT !.pc = IF app.arg[1].mallocOk THEN "N251" ELSE "N317"]
    /\ UNCHANGED <<mon, lock_owner, lock_destroyed, freed, loop, now, top_cfg, cyc, published>>

\* lines 251-284: the configuration fields, the server list, the interface
New_L251 ==
    /\ NewAt("N251")
    /\ mon' = Configure(app.arg[1].cfg, app.arg[1].route)
    /\ app' = [app EXCEPT !.pc = "N287"]
    /\ UNCHANGED <<lock_owner, lock_destroyed, freed, loop, now, top_cfg, cyc, published>>

\* lines 287-288: sock = socket(...); sock < 0 || !check_lan(mon): check_lan is
\* called when sock >= 0 and app.ret holds what it returned
New_L287 ==
    /\ NewAt("N287")
    /\ IF app.arg[1].sockOk
       THEN app' = [app EXCEPT !.pc = "N288",
                               !.ret = <<check_lan(app.arg[1].lanSockOk, app.arg[1].io)>>]
       ELSE app' = [app EXCEPT !.pc = "N317"]
    /\ UNCHANGED <<mon, lock_owner, lock_destroyed, freed, loop, now, top_cfg, cyc, published>>

\* lines 288-293: if check_lan failed: close(sock); free(mon); return NULL
New_L288 ==
    /\ NewAt("N288")
    /\ app' = [app EXCEPT !.pc = IF app.ret[1] THEN "N296" ELSE "N317", !.ret = <<>>]
    /\ UNCHANGED <<mon, lock_owner, lock_destroyed, freed, loop, now, top_cfg, cyc, published>>

\* lines 296-314: the state fields, pthread_mutex_init, pthread_create (the
\* thread is spawned), pthread_detach; on a failure free(mon); return NULL
New_L296 ==
    /\ NewAt("N296")
    /\ LET in == app.arg[1]
           r == network_monitor_new(in.mallocOk, in.cfg, in.route, in.sockOk, in.lanSockOk,
                                    in.io, in.mutexOk, in.threadOk)
       IN  /\ mon' = r.mon
           /\ loop' = LoopStart(r.live)
           /\ app' = [app EXCEPT !.pc = IF r.live THEN "N316" ELSE "N317"]
    /\ UNCHANGED <<lock_owner, lock_destroyed, freed, now, top_cfg, cyc, published>>

\* line 316: return mon; or return NULL (lines 248, 291, 305, 312), mon freed
New_Return ==
    /\ app.op = "network_monitor_new"
    /\ app.pc \in {"N316", "N317"}
    /\ app' = AppStart(app.pc = "N316")
    /\ freed' = (app.pc = "N317")
    /\ top_cfg' = CfgOf(mon)
    /\ UNCHANGED <<mon, lock_owner, lock_destroyed, loop, now, cyc, published>>

NextNew == New_L247 \/ New_L251 \/ New_L287 \/ New_L288 \/ New_L296 \/ New_Return

SpecNew == InitNew /\ [][NextNew]_vars

----------------------------------------------------------------------------
(* Vocabulary of the properties *)

\* the status fields
Status == <<mon.wan_up, mon.lan_up, mon.last_check_time, mon.last_error>>

\* the positions of the loop inside check_wan, inside check_lan, in sleep(interval)
WanPcs == {"W133", "W136", "W138", "W142", "W148", "W149", "W150", "W156", "W158", "W161"}
LanPcs == {"N178", "N180", "N185", "N187", "N188", "N196"}
SleepPcs == {"L229"}

\* the positions of the loop between pthread_mutex_lock and pthread_mutex_unlock
LockedPcs == {"L211", "L212", "L215", "L216", "L224", "L225", "L226", "L227"}

\* the positions at which the loop's next step reads or writes a configuration
\* field (timeout_ms, check_interval_sec, wan_servers, lan_interface) or a status field
FieldPcs ==
    {"L215", "W138", "W142", "W148", "W149", "W150", "W158", "W161", "N180", "N185",
     "N188", "N196", "L224", "L225", "L226"}

\* the positions from the end of a cycle's publication to the start of the next probes
BetweenCyclesPcs == {"L229", "L210", "L211", "L212", "L215", "L216", "exit"}

\* a cycle has been completed and no later one has started its probes:
\* cyc describes the last completed cycle
CycleDone == loop.pc \in BetweenCyclesPcs /\ published[3] > 0

\* destroy has gone past its grace period
GraceOver == app.pc \in {"D332", "destroyed"}

----------------------------------------------------------------------------
(* Properties *)

\* C1 (as claimed): when network_monitor_destroy destroys the lock and frees the
\* monitor, the background loop has already observed running == false and
\* exited, so the loop never uses the lock or a field of the released monitor.
C1_LoopExitedBeforeRelease ==
    (app.op = "network_monitor_destroy" /\ (lock_destroyed \/ freed)) => loop.pc = "exit"

\* C2: whenever a reader holds the lock, the stored (wan_up, lan_up,
\* last_check_time) is the initial (false, false, 0) or the WAN result, LAN
\* result and timestamp of one single completed cycle (the last one), and the
\* snapshot network_monitor_to_string returns shows such a triple.
C2_ReaderSeesOneCycle ==
    /\ lock_owner = "app" => <<mon.wan_up, mon.lan_up, mon.last_check_time>> = published
    /\ (app.op = "network_monitor_to_string" /\ app.ret /= <<NULL>>) =>
           SubSeq(app.ret[1], 1, 3) = published

C2_Witness ==
    /\ lock_owner = "app"
    /\ app.op = "network_monitor_to_string"
    /\ app.ret /= <<NULL>>
    /\ published = <<TRUE, FALSE, 1>>
    /\ loop.pc \in LanPcs

\* C3 (as claimed): once destroy's grace period is over, the status fields
\* (wan_up, lan_up, last_check_time, last_error) never change again.
C3_StatusFrozenAfterGrace == [][GraceOver => Status' = Status]_vars

\* C4 (as claimed): every read or write of a configuration or status field by
\* the background loop is performed while the loop holds the lock (the
\* application's accesses all are), so no access of the loop is concurrent with
\* a critical section of the application on the same field.
C4_FieldAccessUnderLock ==
    /\ loop.pc \in FieldPcs => lock_owner = "loop"
    /\ app.pc \in {"unlock", "D329"} => lock_owner = "app"

\* C5: the loop does not hold the lock while a WAN probe, a LAN probe or the
\* inter-cycle sleep is in progress; while it holds the lock it is at a field
\* read or write or at the unlock; the application holds the lock only between
\* the lock and the unlock of one call.
C5_LockNotHeldAcrossIO ==
    /\ loop.pc \in (WanPcs \cup LanPcs \cup SleepPcs) => lock_owner /= "loop"
    /\ lock_owner = "loop" => loop.pc \in LockedPcs
    /\ lock_owner = "app" => app.pc \in {"unlock", "D329"}

\* an accessor holds the lock and returns while the WAN probe is in progress
C5_Witness ==
    /\ loop.pc = "W161"
    /\ lock_owner = "app"
    /\ app.op = "get_wan_status"

\* C6 (as claimed): every configuration value a cycle's probes use (the socket
\* timeout, the server's port and host, the interface name) is the value the
\* configuration had at the top of that cycle.
C6_CycleUsesTopConfig ==
    /\ loop.pc = "W148" => loop.tv = top_cfg.timeout_ms
    /\ loop.pc = "W149" => loop.addr.port = htons(top_cfg.wan_servers[loop.i + 1].port)
    /\ loop.pc \in {"W156", "W158", "W161"} =>
           loop.addr.host = top_cfg.wan_servers[loop.i + 1].host
    /\ loop.pc = "N187" => loop.ifr_name = Strncpy(top_cfg.lan_interface, IF_NAMESIZE - 1)

\* the last completed cycle: every server refused every attempt, and the
\* interface was administratively up and running
RefusedWanLanUp == CycleDone /\ ~cyc.accepted /\ ~cyc.skipped /\ cyc.lan_flags_up

\* C7 (as claimed): after a completed cycle in which every server refused the
\* connection on every attempt and the LAN interface is up and running,
\* lanUp == true, wanUp == false, lastError != 0 and lastCheckTime > 0.
C7_ErrorKeptAfterRefusedWan ==
    RefusedWanLanUp =>
        mon.lan_up /\ ~mon.wan_up /\ mon.last_error /= 0 /\ mon.last_check_time > 0

\* C7 (amended): after such a cycle, and until the next cycle's probes start,
\* lanUp == true, wanUp == false, lastCheckTime > 0 and lastError == 0: the
\* successful LAN probe has cleared the error the WAN probe recorded.
C7_ErrorClearedAfterRefusedWan ==
    RefusedWanLanUp =>
        mon.lan_up /\ ~mon.wan_up /\ mon.last_error = 0 /\ mon.last_check_time > 0

C7_Witness == RefusedWanLanUp /\ loop.pc = "L229" /\ app.op = "get_last_error"

\* C8: the wan_up a cycle publishes is true iff a server accepted a connection
\* on one of its attempts in that cycle (check_wan returns exactly that);
\* servers are tried in list order and no connect follows the first success.
C8_WanUpIffAccepted ==
    /\ loop.pc \in (BetweenCyclesPcs \cup {"L225", "L226", "L227"}) =>
           mon.wan_up = cyc.accepted
    /\ loop.pc \in (LanPcs \cup {"L223", "L224"}) => loop.new_wan = cyc.accepted
    /\ loop.pc \in {"W136", "W142", "W148", "W149", "W150", "W156", "W161"} => ~cyc.accepted
    /\ cyc.in_order
    /\ loop.pc \in {"W156", "W161"} => cyc.tried <= loop.i

\* a cycle in which a server accepted has published wan_up == true
C8_Witness ==
    /\ loop.pc = "L229"
    /\ cyc.accepted
    /\ mon.wan_up
    /\ mon.last_check_time > 0

\* C9 (as claimed): the value get_last_error returns changes only in the step
\* that publishes wanUp, lanUp and lastCheckTime under the lock.
C9_ErrorChangesOnlyAtPublish ==
    [][mon.last_error' /= mon.last_error =>
           (lock_owner = "loop" /\ loop.pc \in {"L224", "L225", "L226"})]_vars

\* C10: timeout_ms > 0, check_interval_sec > 0 and wan_servers[0].port > 0 in
\* every reachable state of a monitor the constructor returned; a setter called
\* with an argument <= 0 has stored the default (1000, 5, 53) and called with a
\* positive argument has stored it.
C10_ConfigValid ==
    /\ (app.op /= "network_monitor_new" /\ app.pc /= "nohandle") =>
           /\ mon.timeout_ms > 0
           /\ mon.check_interval_sec > 0
           /\ mon.wan_servers[1].port > 0
    /\ (app.pc = "unlock" /\ app.op = "set_timeout_ms") =>
           mon.timeout_ms = (IF app.arg[1] <= 0 THEN 1000 ELSE app.arg[1])
    /\ (app.pc = "unlock" /\ app.op = "set_check_interval_sec") =>
           mon.check_interval_sec = (IF app.arg[1] <= 0 THEN 5 ELSE app.arg[1])
    /\ (app.pc = "unlock" /\ app.op = "set_wan_test_port") =>
           mon.wan_servers[1].port = (IF app.arg[1] <= 0 THEN 53 ELSE app.arg[1])

\* set_timeout_ms(0) has stored 1000 over a configured 2
C10_Witness ==
    /\ app.pc = "unlock"
    /\ app.op = "set_timeout_ms"
    /\ app.arg = <<0>>
    /\ mon.timeout_ms = 1000
    /\ mon.check_interval_sec = 2

\* a handle was returned by network_monitor_new
HandleReturned == app.op /= "network_monitor_new" /\ app.pc /= "nohandle"

\* C11 (as claimed): lan_interface is a non-empty name in every state after a
\* successful construction, whatever set_lan_interface calls were made.
C11_LanInterfaceNonEmpty == HandleReturned => mon.lan_interface /= EMPTY

\* C12: the server list has exactly 4 entries; entries 1..3 are 1.1.1.1:53,
\* 9.9.9.9:53 and 208.67.222.222:53 whatever the constructor and the mutators
\* were given, so the list holds at least one valid server.
C12_OnlyFirstServerChanges ==
    HandleReturned =>
        /\ mon.num_wan_servers = 4
        /\ Len(mon.wan_servers) = 4
        /\ mon.wan_servers[2] = [host |-> CLOUDFLARE_DNS, port |-> 53]
        /\ mon.wan_servers[3] = [host |-> QUAD9_DNS, port |-> 53]
        /\ mon.wan_servers[4] = [host |-> OPEN_DNS, port |-> 53]
        /\ \E i \in 1..4 : inet_pton(mon.wan_servers[i].host) /\ mon.wan_servers[i].port > 0

\* set_wan_test_host has replaced entry 0 by a host that is no IPv4 address
C12_Witness ==
    /\ app.pc = "unlock"
    /\ app.op = "set_wan_test_host"
    /\ app.arg = <<HOSTNAME>>
    /\ mon.wan_servers[1].host = HOSTNAME

\* the constructor's inputs, while it runs
NewIn == app.arg[1]

\* network_monitor_new is at one of its return statements
NewReturning == app.op = "network_monitor_new" /\ app.pc \in {"N316", "N317"}

\* C13 (as claimed): network_monitor_new returns no handle exactly when the
\* allocation, the lock initialization or the thread spawn fails or the
\* interface's flags cannot be queried (no query socket, or the ioctl fails);
\* whatever the flag values are, a successful query lets construction go on.
C13_NoHandleOnlyWhenNotQueryable ==
    NewReturning =>
        (app.pc = "N316" <=>
            /\ NewIn.mallocOk /\ NewIn.mutexOk /\ NewIn.threadOk
            /\ NewIn.sockOk /\ NewIn.lanSockOk /\ NewIn.io.ok)

\* C14: the LAN probe returns true iff its socket was opened, the flags query
\* succeeded and both IFF_UP and IFF_RUNNING are set in the flags it returned.
C14_LanUpIffBothFlags ==
    NewAt("N288") =>
        (app.ret[1] = TRUE <=>
            /\ NewIn.lanSockOk
            /\ NewIn.io.ok
            /\ NewIn.io.flags = {"IFF_UP", "IFF_RUNNING"})

\* the query succeeded with IFF_UP set and IFF_RUNNING missing: the probe
\* returned false
C14_Witness ==
    /\ NewAt("N288")
    /\ NewIn.lanSockOk
    /\ NewIn.io.ok
    /\ NewIn.io.flags = {"IFF_UP"}
    /\ app.ret = <<FALSE>>

\* line k of the routing table is a default route through a gateway
Qualifies(t, k) ==
    /\ t[k].fields = 4
    /\ t[k].dest = 0
    /\ t[k].gw /= 0
    /\ {"RTF_UP", "RTF_GATEWAY"} \subseteq t[k].flags

\* the constructor was given no interface name and has resolved one
AutoDetected ==
    /\ NewAt("N287")
    /\ NewIn.cfg.null \/ NewIn.cfg.lan_interface \in {NULL, EMPTY}

\* C16: auto-detection stores the interface of the first line, in table order,
\* with destination 0, a non-zero gateway and the gateway and up flags set, and
\* last_error 0; with no such line the interface is "lo" and last_error is 0;
\* with an unreadable table the interface is "lo" and last_error is not 0.
C16_FirstDefaultRouteOrLo ==
    AutoDetected =>
        LET t == NewIn.route.entries
            Q == {k \in 1..Len(t) : Qualifies(t, k)}
        IN  IF ~NewIn.route.readable
            THEN mon.lan_interface = <<"l", "o">> /\ mon.last_error /= 0
            ELSE IF Q = {}
            THEN mon.lan_interface = <<"l", "o">> /\ mon.last_error = 0
            ELSE /\ \E k \in Q : /\ \A j \in Q : k <= j
                                 /\ mon.lan_interface = t[k].iface
                 /\ mon.last_error = 0

\* the second line is the first default route: a route without a gateway
\* address precedes it
C16_Witness ==
    /\ AutoDetected
    /\ NewIn.route.readable
    /\ Len(NewIn.route.entries) = 2
    /\ NewIn.route.entries[1] = RouteEntry(ETH0, 0, 0, {RTF_UP, RTF_GATEWAY})
    /\ Qualifies(NewIn.route.entries, 2)
    /\ mon.lan_interface = WLAN0

\* C15: a server's failed attempts are followed by backoffs of 100, 200 and
\* 400 ms in that order; connect() is called only while fewer than 3 attempts
\* have failed, and the probe leaves a server whose attempts fail only after
\* the 3rd failure and its 400 ms backoff.
C15_ThreeAttemptsDoublingBackoff ==
    /\ [](loop.pc \in {"W156", "W161"} =>
            /\ loop.retry \in 0..3
            /\ loop.pc = "W161" => loop.retry < 3
            /\ loop.delays = SubSeq(<<100000, 200000, 400000>>, 1, loop.retry))
    /\ [][(loop.pc = "W156" /\ loop'.pc \in {"W158", "W161"}) => loop.retry < 3]_vars
    /\ [][(loop.pc = "W156" /\ loop'.pc = "W133") =>
            /\ loop.retry = 3
            /\ loop.delays = <<100000, 200000, 400000>>
            /\ loop'.i = loop.i + 1]_vars

\* the first server has failed its 3rd attempt and the third backoff is over
C15_Witness ==
    /\ loop.pc = "W156"
    /\ loop.i = 0
    /\ loop.retry = 3
    /\ loop.delays = <<100000, 200000, 400000>>

\* no cycle has been published since construction
NothingPublished == published[3] = 0

\* C17: until the first cycle is published a reader holding the lock finds
\* wan_up == false, lan_up == false and last_check_time == 0, and the accessors
\* return these; under the lock last_check_time is 0 iff no cycle has been
\* published; every publish stores the current time, which is not 0.
C17_DownAndZeroUntilFirstPublish ==
    /\ []((lock_owner = "app" /\ NothingPublished) =>
            /\ ~mon.wan_up /\ ~mon.lan_up /\ mon.last_check_time = 0
            /\ app.op = "get_wan_status" => app.ret = <<FALSE>>
            /\ app.op = "get_lan_status" => app.ret = <<FALSE>>
            /\ app.op = "get_last_check_time" => app.ret = <<0>>)
    /\ [](lock_owner = "app" => (mon.last_check_time = 0 <=> NothingPublished))
    /\ [][(loop.pc = "L226" /\ loop'.pc = "L227") =>
            (mon'.last_check_time = now /\ now > 0 /\ ~NothingPublished')]_vars

\* get_last_check_time returns 0 while the first cycle, whose LAN probe found
\* the interface up, waits for the lock to publish
C17_Witness ==
    /\ app.pc = "unlock"
    /\ app.op = "get_last_check_time"
    /\ app.ret = <<0>>
    /\ loop.pc = "L223"
    /\ loop.new_lan
    /\ NothingPublished

\* C18 (as claimed): once running is false, the loop's next flag check ends the
\* loop: no new cycle starts.
C18_NoCycleAfterStop ==
    [][(HandleReturned /\ ~mon.running /\ loop.pc = "L211") =>
           loop'.pc \in {"L211", "L212", "crashed"}]_vars

\* the LAN probe has just returned false in a cycle in which every server
\* refused every connection attempt
BothProbesFailed ==
    /\ loop.pc = "L223"
    /\ ~loop.new_lan
    /\ ~cyc.accepted
    /\ ~cyc.skipped

\* C19 (as claimed): when both probes of a cycle fail, the last_error left is
\* the LAN probe's, not the WAN probe's, however the LAN probe failed.
C19_LanErrorReplacesWanError == BothProbesFailed => mon.last_error /= 111

\* C19 (amended): when both probes of a cycle fail, last_error is the errno of
\* the LAN probe if its socket() or its ioctl() failed; if the flags were
\* queried and IFF_UP or IFF_RUNNING is missing, last_error is still the WAN
\* probe's error (ECONNREFUSED when every attempt was refused).
C19_LanErrnoReplacesWanError ==
    BothProbesFailed =>
        IF cyc.probe_errno /= 0
        THEN mon.last_error = cyc.probe_errno /\ mon.last_error \in {24, 19}
        ELSE mon.last_error = 111

\* the flags query failed after every server had refused
C19_Witness ==
    /\ BothProbesFailed
    /\ cyc.probe_errno = 19
    /\ mon.last_error = 19

\* C20: when check_wan returns true a server accepted and last_error is 0; when
\* it returns false no server accepted and last_error is the errno of the most
\* recent failed socket() or connect() of this run of the probe.
C20_WanErrorIsLastFailure ==
    loop.pc = "N178" =>
        IF loop.new_wan
        THEN cyc.accepted /\ mon.last_error = 0
        ELSE ~cyc.accepted /\ cyc.probe_errno /= 0 /\ mon.last_error = cyc.probe_errno

\* a server accepted after the server before it had refused three times
C20_Witness ==
    /\ loop.pc = "N178"
    /\ loop.new_wan
    /\ cyc.probe_errno = 111
    /\ mon.last_error = 0

\* C21: the LAN probe whose flags query succeeded stores 0 in last_error when
\* it returns true and leaves last_error as it was when it returns false; on
\* that path no earlier statement of the probe writes last_error.
C21_LanProbeClearsOnlyWhenUp ==
    /\ [][(loop.pc = "N196" /\ loop'.pc = "L223") =>
            mon'.last_error = (IF loop'.new_lan THEN 0 ELSE mon.last_error)]_vars
    /\ [][(loop.pc \in {"N178", "N185", "N187"} /\ loop'.pc \in {"N185", "N187", "N196"}) =>
            mon'.last_error = mon.last_error]_vars

\* the flags were read with one of them missing after every server had
\* refused: the WAN probe's ECONNREFUSED is still there
C21_Witness ==
    /\ loop.pc = "L223"
    /\ ~loop.new_lan
    /\ cyc.probe_errno = 0
    /\ ~cyc.accepted
    /\ mon.last_error = 111

\* the loop has completed the publication of a cycle (line 226 done)
Published == loop.pc = "L227"

\* C22: while running stays true, every cycle that starts its probes reaches
\* its publication, whatever the probes return, and the status is published
\* again and again; after a publication the loop goes to its sleep: it runs no
\* probe again before the interval has passed.
C22_PublishesForever ==
    /\ ([]mon.running) => /\ []<>Published
                          /\ (loop.pc = "W133") ~> Published
    /\ [][Published => loop'.pc \in {"L227", "L229", "crashed"}]_vars

\* the second cycle has published DOWN for both probes
C22_Witness ==
    /\ Published
    /\ mon.running
    /\ published = <<FALSE, FALSE, 2>>
    /\ mon.last_error /= 0

\* C23 (as claimed): once running is false the loop eventually stops, and
\* running never becomes true again.  A thread ended by a fault on freed
\* memory is counted as stopped too, so that only a loop that keeps cycling
\* refutes the statement.
C23_LoopStopsAfterStop ==
    /\ (HandleReturned /\ ~mon.running) ~> (loop.pc \in {"exit", "crashed"})
    /\ [][~mon.running => ~mon'.running]_vars

\* the field of the monitor an accessor or mutator may write
TargetField(op) ==
    CASE op = "set_timeout_ms" -> {"timeout_ms"}
      [] op = "set_check_interval_sec" -> {"check_interval_sec"}
      [] op = "set_proxy" -> {"proxy_url"}
      [] op \in {"set_wan_test_host", "set_wan_test_port"} -> {"wan_servers"}
      [] op = "set_lan_interface" -> {"lan_interface"}
      [] OTHER -> {}

\* the step is the body of an accessor, a mutator or network_monitor_to_string
ApiCallStep == app.pc = "idle" /\ app'.pc = "unlock"

\* C24: the body of an accessor, a mutator or network_monitor_to_string changes
\* no field of the monitor other than the one configuration field it sets (of
\* the server list: the host, or the port, of entry 0), so no status field; a
\* status field changes only in a step of the background loop.
C24_ApiCallsWriteOnlyTheirField ==
    /\ [][ApiCallStep =>
            /\ \A f \in (DOMAIN mon) \ TargetField(app'.op) : mon'[f] = mon[f]
            /\ \A i \in 2..4 : mon'.wan_servers[i] = mon.wan_servers[i]
            /\ app'.op /= "set_wan_test_host" => mon'.wan_servers[1].host = mon.wan_servers[1].host
            /\ app'.op /= "set_wan_test_port" => mon'.wan_servers[1].port = mon.wan_servers[1].port]_vars
    /\ [][Status' /= Status => loop' /= loop]_vars

\* set_wan_test_port(2) on the default server list after a cycle that found
\* the WAN down was published
C24_Witness ==
    /\ app.pc = "unlock"
    /\ app.op = "set_wan_test_port"
    /\ app.arg = <<2>>
    /\ mon.wan_servers[1] = [host |-> GOOGLE_DNS, port |-> 2]
    /\ mon.last_check_time > 0
    /\ mon.last_error /= 0

\* C25: a probe holds at most one open socket, and none when it has returned:
\* the number of open probe sockets is 0 when check_wan moves to another
\* server, when check_wan or check_lan has returned, and between cycles.
C25_NoSocketLeftOpen ==
    /\ loop.socks \in {0, 1}
    /\ loop.pc \in (BetweenCyclesPcs \cup {"W133", "W136", "W138", "N178", "N180",
                                          "L223", "L224", "L225", "L226", "L227"}) =>
           loop.socks = 0

\* the second cycle is over; in it a server was skipped (its socket could not
\* be opened or its address not parsed) and no server accepted
C25_Witness ==
    /\ loop.pc = "L229"
    /\ loop.socks = 0
    /\ cyc.skipped
    /\ ~cyc.accepted
    /\ published[3] = 2

====
